---- MODULE Spec2Model ----
(***************************************************************************)
(* A model of the pokemondata pipeline: the transactional load of          *)
(* src/etl/load.py (load_to_sqlite and the SQLite schema it creates) and   *)
(* the batch extraction of src/etl/extract.py (extract_pokemon_batch and   *)
(* the retrying session of make_session its GETs go through).              *)
(*                                                                         *)
(* Values.  A JSON value that may be null is a sequence of length <= 1:    *)
(* <<>> is null, <<v>> is the value v.  A pandas cell is a tagged tuple    *)
(* (<<"int", n>>, <<"float", n>>, <<"nan">>, <<"none">>, <<"str", s>>).    *)
(* A value stored in a column is <<>> (NULL) or <<storage class, v>>.      *)
(* The pokemon table is the sequence of its rows in rowid order; a child   *)
(* table is the bag of its rows <<pokemon_id, value>>.  Both can hold a    *)
(* duplicate row: it is the modelled constraints that keep them out.       *)
(***************************************************************************)
EXTENDS Integers, Sequences, FiniteSets, Bags, TLC

VARIABLES
    focus,        \* which family of curated files this behaviour draws from
    pc,           \* position of load_to_sqlite (or "idle" between passes)
    coll,         \* the list read from data/pokemon_curated.json by this pass
    tables,       \* names of the tables that exist in data/pokemon.db
    db,           \* rows of the three tables as the connection sees them
    journal,      \* rows as of BEGIN, what conn.rollback() restores
    inTxn,        \* the connection has an open transaction
    fk,           \* PRAGMA foreign_keys of the open connection
    exc,          \* the exception in flight / propagated ("none" if none)
    raisedAt,     \* history: the call of this pass that raised first
    printed,      \* <<>> or <<p, t, a>>: the counts printed by this pass
    phases,       \* the steps of this pass that completed, in order
    before,       \* history: db when this pass began
    repeat,       \* history: this pass reads the same list as the previous one
    lastLoaded,   \* history: id -> parent values of the last committed record
    delId,        \* history: id of the parent row deleted last (0 if none)
    epc,          \* position of extract_pokemon_batch
    index,        \* the index page fetched by this batch
    i,            \* number of index items the loop has finished
    curated,      \* extract_pokemon_batch's curated list
    raw_dump,     \* extract_pokemon_batch's raw_dump list
    attempts,     \* history: index positions handed to fetch_pokemon_detail
                  \* so far, the call in progress included
    outcomes,     \* history: outcome of each attempt, in order
    sleeps,       \* history: number of time.sleep(sleep_sec) calls
    eexc,         \* the exception that left extract_pokemon_batch ("none")
    curatedFile,  \* content of data/pokemon_curated.json (<<"absent">> ...)
    rawFile,      \* content of data/pokemon_raw.json
    http,         \* position of the session.get in progress ("idle" if none)
    total,        \* Retry.total left to the session.get in progress
    answer,       \* what the last request sent by session.get met
    sent,         \* history: requests sent by the session.get in progress
    returned,     \* the values extract_pokemon_batch returned (<<>> if none)
    wrote,        \* the counts of its "[INFO] Wrote" line (<<>> if none)
    filesBefore   \* history: the two files when this batch began

loadVars == <<focus, pc, coll, tables, db, journal, inTxn, fk, exc, raisedAt,
              printed, phases, before, repeat, lastLoaded, delId>>
transportVars == <<http, total, answer, sent>>
extractVars == <<epc, index, i, curated, raw_dump, attempts, outcomes, sleeps,
                 eexc, curatedFile, rawFile, transportVars, returned, wrote,
                 filesBefore>>
vars == <<loadVars, extractVars>>

----------------------------------------------------------------------------
(* Bounds of the model. *)

\* longest curated list a load pass reads
MaxRecords == 2
\* longest index page a batch fetches
MaxIndex == 2

----------------------------------------------------------------------------
(* The curated records a load pass can read. *)

NULL == <<>>

Ids == {1, 2}

\* a JSON value of a types/abilities list that sqlite3 cannot bind (an object)
UNBINDABLE == "{}"

\* name, height, weight, base_experience of a record; the last has no name
ParentValues ==
    { <<<<"bulbasaur">>, <<7>>, <<69>>, <<64>>>>,
      <<<<"bulbasaur">>, <<7>>, <<69>>, <<65>>>>,
      <<<<"ivysaur">>, <<10>>, <<130>>, NULL>>,
      <<NULL, <<7>>, <<69>>, <<64>>>> }

ChildLists(a, b) ==
    { <<a>>, <<a, b>>, <<a, a>>, <<b, UNBINDABLE>> }

MkRecord(id, pv, ts, as) ==
    [id |-> id, name |-> pv[1], height |-> pv[2], weight |-> pv[3],
     base_experience |-> pv[4], types |-> ts, abilities |-> as]

BaseValues == <<<<"bulbasaur">>, <<7>>, <<69>>, <<64>>>>

\* The curated files of one behaviour vary one part of the records: the
\* parent values (with one type and no ability), the types (with one ability)
\* or the abilities (with no type).
Focuses == {"attrs", "types", "abilities"}

Records(f) ==
    CASE f = "attrs" ->
           { MkRecord(id, pv, <<"grass">>, <<>>) :
                 id \in Ids, pv \in ParentValues }
      [] f = "types" ->
           { MkRecord(id, BaseValues, ts, <<"overgrow">>) :
                 id \in Ids, ts \in ChildLists("grass", "poison") }
      [] f = "abilities" ->
           { MkRecord(id, BaseValues, <<>>, as) :
                 id \in Ids, as \in ChildLists("overgrow", "chlorophyll") }

SeqsUpTo(S, n) == UNION { [1..k -> S] : k \in 0..n }

Collections(f) == SeqsUpTo(Records(f), MaxRecords)

----------------------------------------------------------------------------
(* read_curated_df: pd.DataFrame(data).  pandas infers one dtype per       *)
(* column: a numeric column with a missing value becomes float64 with NaN, *)
(* a column of nulls only and the name column are object columns that keep *)
(* None; iterrows hands the cells back as Python objects.                  *)

Column(data, field) == [k \in 1..Len(data) |-> data[k][field]]

NumericCell(column, v) ==
    IF \A k \in 1..Len(column) : column[k] # NULL THEN <<"int", v[1]>>
    ELSE IF \A k \in 1..Len(column) : column[k] = NULL THEN <<"none">>
    ELSE IF v = NULL THEN <<"nan">>
    ELSE <<"float", v[1]>>

ObjectCell(v) == IF v = NULL THEN <<"none">> ELSE <<"str", v[1]>>

DataFrame(data) ==
    [k \in 1..Len(data) |->
        [id |-> <<"int", data[k].id>>,
         name |-> ObjectCell(data[k].name),
         height |-> NumericCell(Column(data, "height"), data[k].height),
         weight |-> NumericCell(Column(data, "weight"), data[k].weight),
         base_experience |-> NumericCell(Column(data, "base_experience"),
                                         data[k].base_experience),
         types |-> data[k].types,
         abilities |-> data[k].abilities]]

\* int(r["id"])
PyInt(cell) == cell[2]

----------------------------------------------------------------------------
(* sqlite3 parameter binding and the column affinities of init_schema.     *)
(* A stored value is NULL or <<storage class, value>>.                     *)

\* sqlite3 binds None and a NaN float as NULL, an int as INTEGER, a float as
\* REAL and a str as TEXT
Bind(cell) ==
    CASE cell[1] = "int" -> <<"integer", cell[2]>>
      [] cell[1] = "float" -> <<"real", cell[2]>>
      [] cell[1] = "str" -> <<"text", cell[2]>>
      [] OTHER -> NULL

\* a column declared INTEGER stores a REAL that is a whole number as INTEGER
IntegerAffinity(v) ==
    IF v # NULL /\ v[1] = "real" THEN <<"integer", v[2]>> ELSE v

\* the (nullable) JSON value a stored value reads back as
JsonOf(v) == IF v = NULL THEN NULL ELSE <<v[2]>>

Result(d, e) == [db |-> d, err |-> e]

EmptyDb ==
    [pokemon |-> <<>>, pokemon_type |-> EmptyBag, pokemon_ability |-> EmptyBag]

TableNames == <<"pokemon", "pokemon_type", "pokemon_ability">>

HasParent(d, id) == \E k \in 1..Len(d.pokemon) : d.pokemon[k].id = id

\* position of the row of pokemon with this id (the table is kept in rowid
\* order and id is the rowid)
ParentPos(d, id) == CHOOSE k \in 1..Len(d.pokemon) : d.pokemon[k].id = id

InsertByRowid(tbl, row) ==
    LET n == Cardinality({k \in 1..Len(tbl) : tbl[k].id < row.id})
    IN  SubSeq(tbl, 1, n) \o <<row>> \o SubSeq(tbl, n + 1, Len(tbl))

RemoveParent(tbl, id) ==
    LET RECURSIVE Pick(_)
        Pick(k) == IF k > Len(tbl) THEN <<>>
                   ELSE IF tbl[k].id # id THEN <<tbl[k]>> \o Pick(k + 1)
                   ELSE Pick(k + 1)
    IN  Pick(1)

RemoveChildren(tbl, id) ==
    [r \in {x \in DOMAIN tbl : x[1] # id} |-> tbl[r]]

\* ON DELETE CASCADE, acting only when PRAGMA foreign_keys is ON
CascadeDelete(d, id, fkOn) ==
    IF fkOn
    THEN [d EXCEPT
            !.pokemon_type = RemoveChildren(@, id),
            !.pokemon_ability = RemoveChildren(@, id)]
    ELSE d

\* DELETE FROM pokemon WHERE id = ?
DeleteParentStmt(d, id, fkOn) ==
    CascadeDelete([d EXCEPT !.pokemon = RemoveParent(@, id)], id, fkOn)

ParentRow(p) ==
    [id |-> p[1], name |-> p[2], height |-> IntegerAffinity(p[3]),
     weight |-> IntegerAffinity(p[4]),
     base_experience |-> IntegerAffinity(p[5])]

\* INSERT OR REPLACE INTO pokemon ...: the conflicting row is deleted, with
\* its children, and the new row inserted
ReplaceStmt(d, p, fkOn) ==
    IF p[2] = NULL THEN Result(d, "IntegrityError")
    ELSE LET d1 == IF HasParent(d, p[1]) THEN DeleteParentStmt(d, p[1], fkOn)
                   ELSE d
         IN  Result([d1 EXCEPT !.pokemon = InsertByRowid(@, ParentRow(p))],
                    "none")

\* INSERT OR IGNORE INTO pokemon ...: an existing row keeps its values
InsertOrIgnoreParentStmt(d, p, fkOn) ==
    IF p[2] = NULL \/ HasParent(d, p[1]) THEN Result(d, "none")
    ELSE Result([d EXCEPT !.pokemon = InsertByRowid(@, ParentRow(p))], "none")

\* INSERT INTO pokemon ... ON CONFLICT(id) DO UPDATE SET name = excluded.name,
\* height = ..., weight = ..., base_experience = ...; name is NOT NULL
UpsertStmt(d, p, fkOn) ==
    IF p[2] = NULL THEN Result(d, "IntegrityError")
    ELSE IF HasParent(d, p[1])
    THEN Result([d EXCEPT !.pokemon[ParentPos(d, p[1])] = ParentRow(p)], "none")
    ELSE Result([d EXCEPT !.pokemon = InsertByRowid(@, ParentRow(p))], "none")

\* UNIQUE (pokemon_id, type) / UNIQUE (pokemon_id, ability) of a child table
NoUniqueConflict(tbl, row) == FALSE

UniqueConflict(tbl, row) == BagIn(row, tbl)

\* INSERT OR IGNORE INTO <child> (pokemon_id, <col>) VALUES (?, ?): a value
\* sqlite3 cannot bind raises before the statement runs; OR IGNORE skips the
\* row on a UNIQUE conflict; a missing parent is a foreign-key violation,
\* which OR IGNORE does not cover
InsertOrIgnoreStmt(d, child, pair, fkOn) ==
    IF pair[2] = UNBINDABLE THEN Result(d, "ProgrammingError")
    ELSE LET row == <<pair[1], <<"text", pair[2]>>>>
         IN  IF UniqueConflict(d[child], row) THEN Result(d, "none")
             ELSE IF fkOn /\ ~HasParent(d, pair[1])
             THEN Result(d, "IntegrityError")
             ELSE Result([d EXCEPT ![child] = @ (+) SetToBag({row})], "none")

\* cur.execute(sql, p) for the three statements of load.py
Execute(sql, d, p, fkOn) ==
    CASE sql = "pokemon" -> UpsertStmt(d, p, fkOn)
      [] OTHER -> InsertOrIgnoreStmt(d, sql, p, fkOn)

\* conn.executemany(sql, params): the statement is run once per parameter
\* tuple, in order, from the k-th on; the first one that raises ends the call
\* and the rows written before it stay in the open transaction
RECURSIVE ExecuteMany(_, _, _, _, _)
ExecuteMany(sql, d, params, fkOn, k) ==
    IF k > Len(params) THEN Result(d, "none")
    ELSE LET r == Execute(sql, d, params[k], fkOn)
         IN  IF r.err # "none" THEN r
             ELSE ExecuteMany(sql, r.db, params, fkOn, k + 1)

----------------------------------------------------------------------------
(* upsert_pokemon, upsert_types, upsert_abilities *)

\* rows = [(int(r["id"]), r["name"], r.get("height"), ...) for _, r in ...]
PokemonRows(df) ==
    [k \in 1..Len(df) |->
        <<PyInt(df[k].id), Bind(df[k].name), Bind(df[k].height),
          Bind(df[k].weight), Bind(df[k].base_experience)>>]

\* pairs.append((pid, t)) for every row and every element of its list
RECURSIVE Pairs(_, _, _)
Pairs(df, field, k) ==
    IF k > Len(df) THEN <<>>
    ELSE [j \in 1..Len(df[k][field]) |-> <<PyInt(df[k].id), df[k][field][j]>>]
         \o Pairs(df, field, k + 1)

\* a load that empties pokemon, and with it the child tables, before it
\* inserts the rows
TruncateAndInsert(d, df, fkOn) ==
    LET d0 == [d EXCEPT
                 !.pokemon = <<>>,
                 !.pokemon_type = IF fkOn THEN EmptyBag ELSE @,
                 !.pokemon_ability = IF fkOn THEN EmptyBag ELSE @]
    IN  ExecuteMany("pokemon", d0, PokemonRows(df), fkOn, 1)

upsert_pokemon(d, df, fkOn) ==
    ExecuteMany("pokemon", d, PokemonRows(df), fkOn, 1)

upsert_types(d, df, fkOn) ==
    ExecuteMany("pokemon_type", d, Pairs(df, "types", 1), fkOn, 1)

upsert_abilities(d, df, fkOn) ==
    ExecuteMany("pokemon_ability", d, Pairs(df, "abilities", 1), fkOn, 1)

----------------------------------------------------------------------------
(* load_to_sqlite, one action per statement.  exc names the call whose     *)
(* exception is in flight, or is "none".                                   *)

Between == pc \in {"idle", "done"}

\* the calls of the transaction, steps 4-6 of the try block
TxnSteps == {"upsert_pokemon", "upsert_types", "upsert_abilities"}

\* values of raisedAt after a pass that ran the transaction on its list
Loaded == TxnSteps \cup {"none"}

\* history: the parent values of the last record of data with this id
LastValues(data, id, old) ==
    LET at == {k \in 1..Len(data) : data[k].id = id}
    IN  IF at = {} THEN old
        ELSE LET k == CHOOSE m \in at : \A n \in at : n <= m
             IN  <<<<data[k].name, data[k].height, data[k].weight,
                     data[k].base_experience>>>>

\* df = read_curated_df() returns data; again says that the file is the one
\* the pass before this one loaded
StartPass(data, again) ==
    /\ coll' = data
    /\ repeat' = again
    /\ before' = db
    /\ exc' = "none"
    /\ raisedAt' = "none"
    /\ printed' = <<>>
    /\ phases' = <<"read">>
    /\ delId' = 0
    /\ pc' = "get_conn"
    /\ UNCHANGED <<extractVars, focus, tables, db, journal, inTxn, fk,
                   lastLoaded>>

\* load_to_sqlite() is run on a curated file holding data
ReadCurated(data) ==
    /\ pc = "idle"
    /\ StartPass(data, FALSE)

\* load_to_sqlite() is run again on the curated file the last pass loaded
ReadCuratedAgain ==
    /\ pc = "done"
    /\ raisedAt \in Loaded
    /\ StartPass(coll, TRUE)

\* read_curated_df() raises (no curated file, or not JSON): the exception
\* leaves load_to_sqlite, which has not entered its try statement
ReadCuratedRaises ==
    /\ pc = "idle"
    /\ repeat' = FALSE
    /\ before' = db
    /\ exc' = "read_curated_df"
    /\ raisedAt' = "read_curated_df"
    /\ printed' = <<>>
    /\ phases' = <<>>
    /\ delId' = 0
    /\ pc' = "done"
    /\ UNCHANGED <<extractVars, focus, coll, tables, db, journal, inTxn, fk,
                   lastLoaded>>

\* the run of load.py ends; the store stays, the rest of the run is gone
Exit ==
    /\ pc = "done"
    /\ pc' = "idle"
    /\ coll' = <<>>
    /\ repeat' = FALSE
    /\ before' = db
    /\ exc' = "none"
    /\ raisedAt' = "none"
    /\ printed' = <<>>
    /\ phases' = <<>>
    /\ fk' = FALSE
    /\ UNCHANGED <<extractVars, focus, tables, db, journal, inTxn, lastLoaded,
                   delId>>

\* a connection without the pragma: SQLite's default is OFF
NoForeignKeys == FALSE

\* conn.execute("PRAGMA foreign_keys = ON") of get_conn
GetConnForeignKeys == TRUE

\* conn = get_conn()
get_conn ==
    /\ pc = "get_conn"
    /\ fk' = GetConnForeignKeys
    /\ phases' = Append(phases, "open")
    /\ pc' = "init_schema"
    /\ UNCHANGED <<extractVars, raisedAt, focus, coll, tables, db, journal,
                   inTxn, exc, printed, before, repeat, lastLoaded, delId>>

AllTables == {TableNames[k] : k \in 1..3}

\* init_schema(conn): the three CREATE TABLE IF NOT EXISTS all succeed
init_schema ==
    /\ pc = "init_schema"
    /\ tables' = AllTables
    /\ pc' = "begin"
    /\ UNCHANGED <<extractVars, raisedAt, focus, coll, db, journal, inTxn, fk,
                   exc, printed, phases, before, repeat, lastLoaded, delId>>

\* init_schema(conn) raises: executescript runs the statements one by one in
\* autocommit mode; the k-th has a table to create and cannot write it
InitSchemaRaises(k) ==
    /\ pc = "init_schema"
    /\ TableNames[k] \notin tables
    /\ tables' = tables \cup {TableNames[j] : j \in 1..(k - 1)}
    /\ exc' = "init_schema"
    /\ raisedAt' = "init_schema"
    /\ pc' = "except"
    /\ UNCHANGED <<extractVars, focus, coll, db, journal, inTxn, fk, printed,
                   phases, before, repeat, lastLoaded, delId>>

\* conn.execute("BEGIN")
Begin ==
    /\ pc = "begin"
    /\ inTxn' = TRUE
    /\ journal' = db
    /\ pc' = "upsert_pokemon"
    /\ UNCHANGED <<extractVars, raisedAt, focus, coll, tables, db, fk, exc,
                   printed, phases, before, repeat, lastLoaded, delId>>

\* one of steps 4-6 of the try block: run the call; on an exception go to
\* the except clause with what was written so far still in the transaction
Step(at, res, phase, next) ==
    /\ pc = at
    /\ db' = res.db
    /\ IF res.err = "none"
       THEN /\ pc' = next
            /\ phases' = Append(phases, phase)
            /\ UNCHANGED <<exc, raisedAt>>
       ELSE /\ pc' = "except"
            /\ phases' = phases
            /\ exc' = at
            /\ raisedAt' = at
    /\ UNCHANGED <<extractVars, focus, coll, tables, journal, inTxn, fk,
                   printed, before, repeat, lastLoaded, delId>>

\* a pass that inserts the types first
UpsertTypesFirst ==
    Step("upsert_pokemon", upsert_types(db, DataFrame(coll), fk),
         "types-inserted", "upsert_types")

UpsertPokemon ==
    Step("upsert_pokemon", upsert_pokemon(db, DataFrame(coll), fk),
         "parent-upserted", "upsert_types")

UpsertTypes ==
    Step("upsert_types", upsert_types(db, DataFrame(coll), fk),
         "types-inserted", "upsert_abilities")

UpsertAbilities ==
    Step("upsert_abilities", upsert_abilities(db, DataFrame(coll), fk),
         "abilities-inserted", "commit")

\* conn.commit()
Commit ==
    /\ pc = "commit"
    /\ inTxn' = FALSE
    /\ journal' = db
    /\ phases' = Append(phases, "committed")
    /\ lastLoaded' = [id \in Ids |-> LastValues(coll, id, lastLoaded[id])]
    /\ pc' = "finally"
    /\ UNCHANGED <<extractVars, raisedAt, focus, coll, tables, db, fk, exc,
                   printed, before, repeat, delId>>

\* conn.commit() raises (the database file is locked or cannot be written):
\* nothing is committed
CommitRaises ==
    /\ pc = "commit"
    /\ exc' = "commit"
    /\ raisedAt' = "commit"
    /\ pc' = "except"
    /\ UNCHANGED <<extractVars, focus, coll, tables, db, journal, inTxn, fk,
                   printed, phases, before, repeat, lastLoaded, delId>>

\* a handler that does not roll back
NoRollback(d, j, open) == d

\* a rollback that reverts the parent table only
RollbackParentOnly(d, j, open) ==
    IF open THEN [d EXCEPT !.pokemon = j.pokemon] ELSE d

\* what conn.rollback() leaves in the tables
Rollback(d, j, open) == IF open THEN j ELSE d

\* except Exception: conn.rollback(); raise
Except ==
    /\ pc = "except"
    /\ db' = Rollback(db, journal, inTxn)
    /\ inTxn' = FALSE
    /\ phases' = Append(phases, "rolled-back")
    /\ pc' = "finally"
    /\ UNCHANGED <<extractVars, raisedAt, focus, coll, tables, journal, fk,
                   exc, printed, before, repeat, lastLoaded, delId>>

\* the three SELECT COUNT(*) of the finally clause
Counts(d) ==
    <<Len(d.pokemon), BagCardinality(d.pokemon_type),
      BagCardinality(d.pokemon_ability)>>

\* finally: count the rows of the three tables, print them, conn.close().
\* A SELECT on a table that does not exist raises, and an exception raised
\* in a finally clause replaces the one in flight.
Finally ==
    /\ pc = "finally"
    /\ IF tables = AllTables
       THEN /\ printed' = Counts(db)
            /\ fk' = FALSE
            /\ exc' = exc
       ELSE /\ printed' = printed
            /\ fk' = fk
            /\ exc' = "count"
    /\ pc' = "done"
    /\ UNCHANGED <<extractVars, raisedAt, focus, coll, tables, db, journal,
                   inTxn, phases, before, repeat, lastLoaded, delId>>

\* DELETE FROM pokemon WHERE id = ? on a connection from get_conn(),
\* committed at once
DeleteParent(id) ==
    /\ pc = "idle"
    /\ HasParent(db, id)
    /\ before' = db
    /\ db' = DeleteParentStmt(db, id, GetConnForeignKeys)
    /\ journal' = db'
    /\ delId' = id
    /\ lastLoaded' = [lastLoaded EXCEPT ![id] = <<>>]
    /\ repeat' = FALSE
    /\ phases' = <<>>
    /\ exc' = "none"
    /\ raisedAt' = "none"
    /\ printed' = <<>>
    /\ pc' = "idle"
    /\ UNCHANGED <<extractVars, focus, coll, tables, inTxn, fk>>

----------------------------------------------------------------------------
(* src/etl/extract.py: the remote API as the batch sees it. *)

Entities == {1, 2}

\* an item of the index page: "url" refers to an entity, or the key is missing
IndexItems == {[url |-> <<e>>] : e \in Entities} \cup {[url |-> NULL]}

IndexPages == SeqsUpTo(IndexItems, MaxIndex)

\* the detail payload the API serves for an entity
Payload(e) ==
    IF e = 1
    THEN [id |-> 1, name |-> <<"bulbasaur">>, height |-> <<7>>,
          weight |-> <<69>>, base_experience |-> <<64>>,
          types |-> <<[slot |-> 1, type |-> [name |-> "grass"]],
                      [slot |-> 2, type |-> [name |-> "poison"]]>>,
          abilities |-> <<[slot |-> 1, ability |-> [name |-> "overgrow"]]>>,
          sprites |-> [front_default |-> <<"1.png">>]]
    ELSE [id |-> e, name |-> <<"ivysaur">>, height |-> <<10>>,
          weight |-> NULL, base_experience |-> NULL,
          types |-> <<[slot |-> 1, type |-> [name |-> "grass"]]>>,
          abilities |-> <<>>,
          sprites |-> [front_default |-> NULL]]

\* record = {"id": raw["id"], "name": raw["name"], "height": raw.get(...), ...}
Curate(raw) ==
    [id |-> raw.id, name |-> raw.name, height |-> raw.height,
     weight |-> raw.weight, base_experience |-> raw.base_experience,
     types |-> [k \in 1..Len(raw.types) |-> raw.types[k].type.name],
     abilities |-> [k \in 1..Len(raw.abilities) |->
                       raw.abilities[k].ability.name],
     sprites_front_default |-> raw.sprites.front_default]

\* How one call of fetch_pokemon_detail can end, and the exception it raises:
\*   timeout     session.get times out              requests Timeout
\*   http        raise_for_status on a 4xx/5xx      requests HTTPError
\*   connection  connection refused, DNS failure    requests ConnectionError
\*   decode      r.json() on a body that is no JSON requests JSONDecodeError
\*   schema      raw["id"], raw["name"] or a nested  KeyError / TypeError
\*               t["type"]["name"] is missing
DetailOutcomes == {"ok", "timeout", "http", "connection", "decode", "schema"}

Raised(outcome) ==
    CASE outcome = "timeout" -> "Timeout"
      [] outcome = "http" -> "HTTPError"
      [] outcome = "connection" -> "ConnectionError"
      [] outcome = "decode" -> "JSONDecodeError"
      [] outcome = "schema" -> "KeyError"
      [] OTHER -> "none"

\* the classes of requests.exceptions among these
RequestExceptions ==
    {"Timeout", "HTTPError", "ConnectionError", "JSONDecodeError"}

\* a handler that catches only the timeout
TimeoutOnlyHandler(cls) == IF cls = "Timeout" THEN "skip" ELSE "propagate"

\* except requests.exceptions.Timeout: ... except
\* requests.exceptions.RequestException as e: ...; anything else propagates
Handler(cls) ==
    IF cls = "Timeout" THEN "skip"
    ELSE IF cls \in RequestExceptions THEN "skip"
    ELSE "propagate"

----------------------------------------------------------------------------
(* make_session: every GET of the session goes through an HTTPAdapter whose *)
(* max_retries is Retry(total=5, status_forcelist=[429, 500, 502, 503,      *)
(* 504], allowed_methods=["GET"], raise_on_status=False,                    *)
(* respect_retry_after_header=True).  urllib3 copies the Retry object for   *)
(* each request; every retry takes one from its total, and the request is   *)
(* given up when the total would fall below zero.                           *)

\* total=5
RetryTotal == 5

\* status_forcelist=[429, 500, 502, 503, 504]
StatusForcelist == {429, 500, 502, 503, 504}

\* urllib3's Retry.RETRY_AFTER_STATUS_CODES, honoured under
\* respect_retry_after_header=True
RetryAfterStatusCodes == {413, 429, 503}

NoAnswer == <<"none">>

\* a response with a status and, or not, a Retry-After header
Response(status, retry_after) == <<"response", status, retry_after>>

\* no response: the connection timed out, or it failed or was cut otherwise
ConnectTimeout == <<"error", "ConnectTimeout">>
ConnectionFailure == <<"error", "ConnectionError">>

IsResponse(a) == a[1] = "response"

\* what one request sent to the API can meet
Answers ==
    {Response(200, FALSE), Response(404, FALSE), Response(413, TRUE),
     Response(503, FALSE), ConnectTimeout, ConnectionFailure}

\* Retry.is_retry for a GET, and the errors Retry.increment counts: an error
\* of the connection, a status of the forcelist, or a status that may carry
\* Retry-After and does, as long as the total is not zero
IsRetry(a, left) ==
    IF IsResponse(a)
    THEN \/ a[2] \in StatusForcelist
         \/ left # 0 /\ a[3] /\ a[2] \in RetryAfterStatusCodes
    ELSE TRUE

\* Retry.is_exhausted after Retry.increment took one from the total
IsExhausted(left) == left - 1 < 0

\* fetch_index_page, or fetch_pokemon_detail for the next item, is called
\* and calls session.get(url, timeout=...): nothing sent yet
Get ==
    /\ http = "idle"
    /\ \/ epc = "idle" /\ attempts' = attempts
       \/ /\ epc = "loop"
          /\ i < Len(index)
          /\ index[i + 1].url # NULL
          /\ attempts' = Append(attempts, i + 1)
    /\ http' = "sending"
    /\ total' = RetryTotal
    /\ answer' = NoAnswer
    /\ sent' = 0
    /\ UNCHANGED <<epc, index, i, curated, raw_dump, outcomes, sleeps, eexc,
                   curatedFile, rawFile, returned, wrote, filesBefore>>
    /\ UNCHANGED loadVars

\* the adapter sends the request and meets a; it sends it again if the Retry
\* says so and is not exhausted, else session.get returns or raises
Send(a) ==
    /\ http = "sending"
    /\ sent' = sent + 1
    /\ answer' = a
    /\ IF IsRetry(a, total) /\ ~IsExhausted(total)
       THEN /\ total' = total - 1
            /\ http' = "sending"
       ELSE /\ total' = total
            /\ http' = "returned"
    /\ UNCHANGED <<epc, index, i, curated, raw_dump, attempts, outcomes,
                   sleeps, eexc, curatedFile, rawFile, returned, wrote,
                   filesBefore>>
    /\ UNCHANGED loadVars

\* how a call that met a as its last answer can end: a 200 whose body is the
\* payload, is no JSON or lacks a key; raise_for_status on another status;
\* the exception requests makes of the error
Endings(a) ==
    IF IsResponse(a)
    THEN IF a[2] = 200 THEN {"ok", "decode", "schema"} ELSE {"http"}
    ELSE IF a = ConnectTimeout THEN {"timeout"} ELSE {"connection"}

Absent == <<"absent">>

Written(content) == <<"written", content>>

----------------------------------------------------------------------------
(* extract_pokemon_batch *)

NewBatch ==
    /\ i' = 0
    /\ curated' = <<>>
    /\ raw_dump' = <<>>
    /\ attempts' = <<>>
    /\ outcomes' = <<>>
    /\ sleeps' = 0
    /\ returned' = <<>>
    /\ wrote' = <<>>
    /\ filesBefore' = <<curatedFile, rawFile>>

\* the run of extract.py ends, with the list or with the exception; the two
\* files stay
ExtractExit ==
    /\ epc \in {"done", "aborted"}
    /\ epc' = "idle"
    /\ index' = <<>>
    /\ eexc' = "none"
    /\ NewBatch
    /\ total' = RetryTotal
    /\ answer' = NoAnswer
    /\ sent' = 0
    /\ UNCHANGED <<curatedFile, rawFile, http>>
    /\ UNCHANGED loadVars

\* index = fetch_index_page(session, limit, offset) returns: its GET met a
\* 200 whose body holds the page
FetchIndex(page) ==
    /\ epc = "idle"
    /\ http = "returned"
    /\ "ok" \in Endings(answer)
    /\ index' = page
    /\ NewBatch
    /\ eexc' = "none"
    /\ epc' = "loop"
    /\ http' = "idle"
    /\ UNCHANGED <<curatedFile, rawFile, total, answer, sent>>
    /\ UNCHANGED loadVars

\* fetch_index_page raises (status, timeout, connection, body): nothing in
\* extract_pokemon_batch catches it
FetchIndexRaises ==
    /\ epc = "idle"
    /\ http = "returned"
    /\ index' = <<>>
    /\ NewBatch
    /\ eexc' = "fetch_index_page"
    /\ epc' = "aborted"
    /\ http' = "idle"
    /\ UNCHANGED <<curatedFile, rawFile, total, answer, sent>>
    /\ UNCHANGED loadVars

\* one iteration whose item has no "url": detail_url = item["url"] raises
\* KeyError before the try statement is entered
ItemWithoutUrl ==
    /\ epc = "loop"
    /\ i < Len(index)
    /\ index[i + 1].url = NULL
    /\ eexc' = "KeyError"
    /\ epc' = "aborted"
    /\ UNCHANGED <<index, i, curated, raw_dump, attempts, outcomes, sleeps,
                   curatedFile, rawFile, transportVars, returned, wrote,
                   filesBefore>>
    /\ UNCHANGED loadVars

\* a loop that sleeps after the fetches that succeeded only
SleepOnSuccess(outcome, n) == IF outcome = "ok" THEN n + 1 ELSE n

\* finally: time.sleep(sleep_sec)
SleepAfter(outcome, n) == n + 1

\* a loop that appends the payload in its finally clause
AppendRawAlways(outcome, list, raw) == Append(list, raw)

\* rec, raw = fetch_pokemon_detail(...); curated.append(rec)
AppendCurated(outcome, list, raw) ==
    IF outcome = "ok" THEN Append(list, Curate(raw)) ELSE list

\* raw_dump.append(raw), reached when the call and the append before it
\* did not raise
AppendRaw(outcome, list, raw) ==
    IF outcome = "ok" THEN Append(list, raw) ELSE list

\* one iteration of the for loop: the GET of fetch_pokemon_detail has
\* returned or raised and the call ends as outcome says; the finally clause
\* sleeps whatever happened
Iteration(outcome) ==
    /\ epc = "loop"
    /\ i < Len(index)
    /\ index[i + 1].url # NULL
    /\ http = "returned"
    /\ outcome \in Endings(answer)
    /\ http' = "idle"
    /\ outcomes' = Append(outcomes, outcome)
    /\ sleeps' = SleepAfter(outcome, sleeps)
    /\ LET raw == Payload(index[i + 1].url[1])
       IN  /\ curated' = AppendCurated(outcome, curated, raw)
           /\ raw_dump' = AppendRaw(outcome, raw_dump, raw)
    /\ IF outcome = "ok" \/ Handler(Raised(outcome)) = "skip"
       THEN /\ i' = i + 1
            /\ UNCHANGED <<epc, eexc>>
       ELSE /\ eexc' = Raised(outcome)
            /\ epc' = "aborted"
            /\ i' = i
    /\ UNCHANGED <<index, attempts, curatedFile, rawFile, total, answer,
                   sent, returned, wrote, filesBefore>>
    /\ UNCHANGED loadVars

\* a loop that writes the curated list after each iteration
WriteCuratedEarly ==
    /\ epc = "loop"
    /\ http = "idle"
    /\ curatedFile' = Written(curated)
    /\ epc' = IF i = Len(index) THEN "write_raw" ELSE "loop"
    /\ UNCHANGED <<index, i, curated, raw_dump, attempts, outcomes, sleeps,
                   eexc, rawFile, transportVars, returned, wrote,
                   filesBefore>>
    /\ UNCHANGED loadVars

\* json.dump(curated, f) into data/pokemon_curated.json
WriteCurated ==
    /\ epc = "loop"
    /\ i = Len(index)
    /\ curatedFile' = Written(curated)
    /\ epc' = "write_raw"
    /\ UNCHANGED <<index, i, curated, raw_dump, attempts, outcomes, sleeps,
                   eexc, rawFile, transportVars, returned, wrote,
                   filesBefore>>
    /\ UNCHANGED loadVars

\* a function that returns both lists
ReturnBoth(c, r) == <<c, r>>

\* return curated
ReturnValue(c, r) == <<c>>

\* print(f"[INFO] Wrote curated={len(curated)} raw={len(raw_dump)}")
WroteLine(c, r) == <<Len(c), Len(r)>>

\* json.dump(raw_dump, f) into data/pokemon_raw.json; print the counts;
\* return curated
WriteRaw ==
    /\ epc = "write_raw"
    /\ rawFile' = Written(raw_dump)
    /\ wrote' = WroteLine(curated, raw_dump)
    /\ returned' = ReturnValue(curated, raw_dump)
    /\ epc' = "done"
    /\ UNCHANGED <<index, i, curated, raw_dump, attempts, outcomes, sleeps,
                   eexc, curatedFile, transportVars, filesBefore>>
    /\ UNCHANGED loadVars

----------------------------------------------------------------------------
(* Specifications *)

LoadInit ==
    /\ focus \in Focuses
    /\ pc = "idle"
    /\ coll = <<>>
    /\ tables = {}
    /\ db = EmptyDb
    /\ journal = EmptyDb
    /\ inTxn = FALSE
    /\ fk = FALSE
    /\ exc = "none"
    /\ raisedAt = "none"
    /\ printed = <<>>
    /\ phases = <<>>
    /\ before = EmptyDb
    /\ repeat = FALSE
    /\ lastLoaded = [id \in Ids |-> <<>>]
    /\ delId = 0

ExtractInit ==
    /\ epc = "idle"
    /\ index = <<>>
    /\ i = 0
    /\ curated = <<>>
    /\ raw_dump = <<>>
    /\ attempts = <<>>
    /\ outcomes = <<>>
    /\ sleeps = 0
    /\ eexc = "none"
    /\ curatedFile = Absent
    /\ rawFile = Absent
    /\ http = "idle"
    /\ total = RetryTotal
    /\ answer = NoAnswer
    /\ sent = 0
    /\ returned = <<>>
    /\ wrote = <<>>
    /\ filesBefore = <<Absent, Absent>>

Init == LoadInit /\ ExtractInit

Next ==
    \/ \E data \in Collections(focus) : ReadCurated(data)
    \/ ReadCuratedAgain
    \/ ReadCuratedRaises
    \/ Exit
    \/ get_conn
    \/ init_schema
    \/ \E k \in 1..3 : InitSchemaRaises(k)
    \/ Begin
    \/ UpsertPokemon
    \/ UpsertTypes
    \/ UpsertAbilities
    \/ Commit
    \/ CommitRaises
    \/ Except
    \/ Finally

\* load passes only
Spec == Init /\ [][Next]_vars

NextDelete ==
    \/ Next
    \/ \E id \in Ids : DeleteParent(id)

\* load passes and deletions of parent rows between them
SpecDelete == Init /\ [][NextDelete]_vars

InitExtract == Init /\ focus = "attrs"

NextExtract ==
    \/ Get
    \/ \E a \in Answers : Send(a)
    \/ \E page \in IndexPages : FetchIndex(page)
    \/ FetchIndexRaises
    \/ ItemWithoutUrl
    \/ \E outcome \in DetailOutcomes : Iteration(outcome)
    \/ WriteCurated
    \/ WriteRaw
    \/ ExtractExit

\* extraction batches only
SpecExtract == InitExtract /\ [][NextExtract]_vars

----------------------------------------------------------------------------
(* Properties of the load (Spec, SpecDelete) *)

ChildRows(d) == BagToSet(d.pokemon_type) \cup BagToSet(d.pokemon_ability)

Range(seq) == {seq[k] : k \in 1..Len(seq)}

RowsOf(d, id) == {k \in 1..Len(d.pokemon) : d.pokemon[k].id = id}

ValuesOf(row) ==
    <<JsonOf(row.name), JsonOf(row.height), JsonOf(row.weight),
      JsonOf(row.base_experience)>>

\* C1 (atomic rollback): when upsert_pokemon, upsert_types or
\* upsert_abilities raised in a load pass, then once load_to_sqlite has
\* finished the three tables hold exactly the rows they held when the pass
\* began, and the exception that leaves load_to_sqlite is the one raised.
C1_AtomicRollback ==
    (pc = "done" /\ raisedAt \in TxnSteps) => (db = before /\ exc = raisedAt)

\* a pass whose ability insert raised after it had upserted a new parent
\* into a store that already held rows
C1_Witness ==
    /\ pc = "done"
    /\ raisedAt = "upsert_abilities"
    /\ before.pokemon # <<>>
    /\ \E k \in 1..Len(coll) : ~HasParent(before, coll[k].id)

\* C2 (idempotent load): a pass that loads the list the pass just before it
\* loaded leaves the three tables with the rows, and so the row counts, they
\* had when it began.
C2_IdempotentLoad ==
    (pc = "done" /\ repeat) => (db = before /\ Counts(db) = Counts(before))

\* a committed second load of a list of two records with child rows
C2_Witness ==
    /\ pc = "done"
    /\ repeat
    /\ raisedAt = "none"
    /\ Len(coll) = 2
    /\ db.pokemon_type # EmptyBag

\* C3 (upsert overwrite, last write wins): between passes, pokemon holds no
\* row for an id no committed pass loaded, and exactly one row for every
\* other id, whose name, height, weight and base_experience are those of the
\* last record with that id of the last committed pass that had one.
C3_LastWriteWins ==
    Between =>
        \A id \in Ids :
            IF lastLoaded[id] = <<>>
            THEN RowsOf(db, id) = {}
            ELSE /\ Cardinality(RowsOf(db, id)) = 1
                 /\ \A k \in RowsOf(db, id) :
                        ValuesOf(db.pokemon[k]) = lastLoaded[id][1]

\* a committed pass whose list holds an id twice, the second time with a null
\* base_experience, over a row that existed before
C3_Witness ==
    /\ pc = "done"
    /\ raisedAt = "none"
    /\ Len(coll) = 2
    /\ coll[1].id = coll[2].id
    /\ coll[1].base_experience # NULL
    /\ coll[2].base_experience = NULL
    /\ HasParent(before, coll[1].id)

\* C6 (referential integrity): in every state, in and between passes, every
\* row of pokemon_type and pokemon_ability has the id of a row of pokemon.
C6_ReferentialIntegrity == \A r \in ChildRows(db) : HasParent(db, r[1])

\* a pass rolled back after its type insert raised, with child rows left
C6_Witness ==
    /\ pc = "done"
    /\ raisedAt = "upsert_types"
    /\ db.pokemon_type # EmptyBag
    /\ db.pokemon_ability # EmptyBag

\* C7 (uniqueness): in every state no row of pokemon_type and no row of
\* pokemon_ability occurs more than once.
C7_Uniqueness ==
    /\ \A r \in BagToSet(db.pokemon_type) : CopiesIn(r, db.pokemon_type) = 1
    /\ \A r \in BagToSet(db.pokemon_ability) :
           CopiesIn(r, db.pokemon_ability) = 1

\* a committed reload of a list that holds one id twice and a record that
\* lists the same type twice
C7_Witness ==
    /\ pc = "done"
    /\ repeat
    /\ raisedAt = "none"
    /\ Len(coll) = 2
    /\ coll[1].id = coll[2].id
    /\ coll[1].types = <<"grass", "grass">>

\* C8 (monotonic child membership): every child row present when a pass
\* began is present in every later state of the pass and after it.
C8_ChildrenMonotonic ==
    /\ before.pokemon_type \sqsubseteq db.pokemon_type
    /\ before.pokemon_ability \sqsubseteq db.pokemon_ability

\* id 1 reloaded with types [grass] after it had been loaded with
\* [grass, poison]: both rows are there
C8_Witness ==
    /\ pc = "done"
    /\ raisedAt = "none"
    /\ coll = <<MkRecord(1, BaseValues, <<"grass">>, <<"overgrow">>)>>
    /\ BagIn(<<1, <<"text", "grass">>>>, db.pokemon_type)
    /\ BagIn(<<1, <<"text", "poison">>>>, before.pokemon_type)
    /\ BagIn(<<1, <<"text", "poison">>>>, db.pokemon_type)

Cascaded(was, now, id) ==
    /\ BagToSet(now) \subseteq BagToSet(was)
    /\ \A r \in BagToSet(was) :
           IF r[1] = id THEN ~BagIn(r, now)
           ELSE CopiesIn(r, now) = CopiesIn(r, was)

\* C9 (cascade delete): after the row of pokemon with some id has been
\* deleted through a get_conn connection, no row of pokemon_type or
\* pokemon_ability has that pokemon_id, and the child rows of the other
\* parents are those from before the deletion.
C9_CascadeDelete ==
    delId # 0 =>
        /\ ~HasParent(db, delId)
        /\ Cascaded(before.pokemon_type, db.pokemon_type, delId)
        /\ Cascaded(before.pokemon_ability, db.pokemon_ability, delId)

\* a deletion of a parent that had rows in both child tables, next to
\* another parent whose child rows stay
C9_Witness ==
    /\ delId # 0
    /\ \E r \in BagToSet(before.pokemon_type) : r[1] = delId
    /\ \E r \in BagToSet(before.pokemon_ability) : r[1] = delId
    /\ \E r \in BagToSet(db.pokemon_type) : r[1] # delId
    /\ \E r \in BagToSet(db.pokemon_ability) : r[1] # delId

\* C10 (counts on every run): whenever load_to_sqlite has finished, whatever
\* raised in it, the counts of the three tables have been printed and the
\* exception that leaves it is the one that was raised first.
C10_CountsAlwaysPrinted ==
    pc = "done" => (printed = Counts(db) /\ exc = raisedAt)

\* the states of a pass that commits, in order ("read" is the curated file
\* read, before the connection is opened)
PassOrder ==
    <<"read", "open", "parent-upserted", "types-inserted",
      "abilities-inserted", "committed">>

UpTo(k) == SubSeq(PassOrder, 1, k)

\* the states from which a pass can fail: the connection is open and the
\* pass has not committed
Intermediate == 2..5

LastPhase == phases[Len(phases)]

\* C17 (load state machine): the states a pass has been through are open,
\* parent-upserted, types-inserted, abilities-inserted, committed in this
\* order from the first, none left out, possibly cut short after any state
\* before committed by rolled-back, after which, as after committed, there
\* is none; no child row is written before the parent upsert is over, no
\* ability row before the type insert is over; a step that raises leads to
\* rolled-back, and a pass that opened the connection ends committed, with
\* nothing raised, or rolled-back, with the rows the pass began with.
C17_LoadStateMachine ==
    /\ \E k \in 0..Len(PassOrder) :
           \/ phases = UpTo(k)
           \/ k \in Intermediate /\ phases = Append(UpTo(k), "rolled-back")
    /\ ("parent-upserted" \notin Range(phases)) =>
           /\ db.pokemon_type = before.pokemon_type
           /\ db.pokemon_ability = before.pokemon_ability
    /\ ("types-inserted" \notin Range(phases)) =>
           db.pokemon_ability = before.pokemon_ability
    /\ (pc = "finally" /\ raisedAt # "none") => LastPhase = "rolled-back"
    /\ (pc = "done" /\ phases # <<>>) =>
           \/ LastPhase = "committed" /\ raisedAt = "none"
           \/ LastPhase = "rolled-back" /\ raisedAt # "none" /\ db = before

\* a pass over a store with rows that upserted a new parent, inserted its
\* types and was rolled back when the ability insert raised
C17_Witness ==
    /\ pc = "done"
    /\ phases = Append(UpTo(4), "rolled-back")
    /\ before.pokemon # <<>>
    /\ \E k \in 1..Len(coll) : ~HasParent(before, coll[k].id)

\* the ids of the records of a curated list
IdsOf(data) == {data[k].id : k \in 1..Len(data)}

ParentRowsOf(d, id) == {d.pokemon[k] : k \in RowsOf(d, id)}

\* the rows of id are in the three tables of now as they are in those of was
SameRows(was, now, id) ==
    /\ ParentRowsOf(now, id) = ParentRowsOf(was, id)
    /\ \A r \in ChildRows(was) \cup ChildRows(now) :
           r[1] = id =>
               /\ CopiesIn(r, now.pokemon_type) = CopiesIn(r, was.pokemon_type)
               /\ CopiesIn(r, now.pokemon_ability)
                      = CopiesIn(r, was.pokemon_ability)

\* C19 (load frame): in every state of a pass and after it, the rows of
\* pokemon, pokemon_type and pokemon_ability for an id that is not in the
\* list being loaded are those the tables held when the pass began, and a
\* pass that loads an empty list leaves the three tables as they were.
C19_LoadFrame ==
    /\ \A id \in Ids \ IdsOf(coll) : SameRows(before, db, id)
    /\ coll = <<>> => db = before

\* a committed pass that changed the tables and whose list has no record
\* for an id that had a parent row and child rows
C19_Witness ==
    /\ pc = "done"
    /\ raisedAt = "none"
    /\ db # before
    /\ \E id \in Ids \ IdsOf(coll) :
           /\ HasParent(before, id)
           /\ \E r \in ChildRows(before) : r[1] = id

----------------------------------------------------------------------------
(* Properties of the extraction (SpecExtract) *)

\* the outcomes that are a timeout or another HTTP or network error
TransportFailures == {"timeout", "http", "connection"}

EntityAt(k) == index[k].url[1]

\* the records of the attempts that succeeded, in the order of the attempts
RECURSIVE Fetched(_)
Fetched(k) ==
    IF k > Len(outcomes) THEN <<>>
    ELSE (IF outcomes[k] = "ok"
          THEN <<Curate(Payload(EntityAt(attempts[k])))>> ELSE <<>>)
         \o Fetched(k + 1)

LoopFinished ==
    epc \in {"write_raw", "done"} \/ (epc = "loop" /\ i = Len(index))

\* an index page of well-formed items whose detail fetches, so far, succeeded
\* or failed with a timeout or another HTTP or network error
TransportFailuresOnly ==
    /\ eexc # "fetch_index_page"
    /\ \A k \in 1..Len(index) : index[k].url # NULL
    /\ \A k \in 1..Len(outcomes) : outcomes[k] \in TransportFailures \cup {"ok"}

Failures == {k \in 1..Len(outcomes) : outcomes[k] # "ok"}

OneTimeout(k) == Failures = {k} /\ outcomes[k] = "timeout"

IdAbsent(id) == \A j \in 1..Len(curated) : curated[j].id # id

AttemptsEveryItem ==
    /\ epc # "aborted"
    /\ LoopFinished => attempts = [k \in 1..Len(index) |-> k]
    /\ curated = Fetched(1)

\* C4 as stated: with timeouts and HTTP or network errors only, every item is
\* attempted and the curated list is the successful records in index order;
\* with exactly one timeout it has N-1 records and none has the id of the
\* item that timed out.
C4_Original ==
    TransportFailuresOnly =>
        /\ AttemptsEveryItem
        /\ \A k \in 1..Len(outcomes) :
               (LoopFinished /\ OneTimeout(k)) =>
                   /\ Len(curated) = Len(index) - 1
                   /\ IdAbsent(EntityAt(k))

\* C4 (partial-failure batch), amended: as C4_Original, but the id of the
\* item that timed out is absent when no other item of the index page
\* refers to the same entity.
C4_PartialFailureBatch ==
    TransportFailuresOnly =>
        /\ AttemptsEveryItem
        /\ \A k \in 1..Len(outcomes) :
               (LoopFinished /\ OneTimeout(k)) =>
                   /\ Len(curated) = Len(index) - 1
                   /\ (\A j \in 1..Len(index) :
                           j # k => EntityAt(j) # EntityAt(k))
                          => IdAbsent(EntityAt(k))

\* a finished batch over two items of which the second, the only item of
\* its entity, timed out
C4_Witness ==
    /\ epc = "done"
    /\ Len(index) = 2
    /\ outcomes = <<"ok", "timeout">>
    /\ EntityAt(2) # EntityAt(1)
    /\ Len(curated) = 1
    /\ curatedFile = Written(curated)

\* C5 (no item failure aborts the batch): the batch is aborted by a failure
\* of the index fetch only; when it is not, every item was attempted and both
\* files hold the lists of this batch.
C5_ItemFailureNeverAborts ==
    /\ epc = "aborted" => eexc = "fetch_index_page"
    /\ epc = "done" =>
           /\ Len(attempts) = Len(index)
           /\ curatedFile = Written(curated)
           /\ rawFile = Written(raw_dump)

\* the attempts of this batch that ended as the outcomes of the set
Ended(set) == {k \in 1..Len(outcomes) : outcomes[k] \in set}

Succeeded == Ended({"ok"})

Skipped == Ended(DetailOutcomes \ {"ok"})

\* C12 as stated: a batch that returns, returns the curated list, the raw
\* list, the number of successes and the number of skipped items; the first
\* number is the length of the curated list and the two add up to the number
\* of items of the index page.
C12_Original ==
    epc = "done" =>
        /\ returned = <<curated, raw_dump, Cardinality(Succeeded),
                        Cardinality(Skipped)>>
        /\ Cardinality(Succeeded) = Len(curated)
        /\ Cardinality(Succeeded) + Cardinality(Skipped) = Len(index)

\* C12 (what the batch gives back), amended: a batch that returns, returns
\* the curated list and nothing else; the raw list is in the raw file; the
\* counts it prints are the lengths of the two lists, both the number of
\* successes, and successes and skipped items add up to the number of items
\* of the index page.
C12_BatchResult ==
    epc = "done" =>
        /\ returned = <<curated>>
        /\ rawFile = Written(raw_dump)
        /\ wrote = <<Cardinality(Succeeded), Cardinality(Succeeded)>>
        /\ Cardinality(Succeeded) = Len(curated)
        /\ Cardinality(Succeeded) + Cardinality(Skipped) = Len(index)

\* a batch that returned after one success and one skipped item
C12_Witness ==
    /\ epc = "done"
    /\ Len(index) = 2
    /\ Cardinality(Succeeded) = 1
    /\ Cardinality(Skipped) = 1
    /\ returned = <<curated>>

\* fetch_pokemon_detail has been called and the iteration is not over
FetchInProgress == epc = "loop" /\ http # "idle"

\* C13 (rate limiting): every call of fetch_pokemon_detail that is over,
\* however it ended, has been followed by one sleep, so that the sleeps are
\* as many as those calls; and a call is made only when every call before
\* it has been followed by its sleep.
C13_SleepAfterEveryAttempt ==
    /\ sleeps = Len(outcomes)
    /\ Len(attempts) = IF FetchInProgress THEN sleeps + 1 ELSE sleeps

\* the second fetch of a batch in progress, after a first that timed out
\* and was followed by its sleep
C13_Witness ==
    /\ FetchInProgress
    /\ attempts = <<1, 2>>
    /\ outcomes = <<"timeout">>
    /\ sleeps = 1

\* the calls of fetch_pokemon_detail so far are for the items 1, 2, ... of
\* the index page, one call each, in this order
CalledInOrder == attempts = [k \in 1..Len(attempts) |-> k]

BatchOver == epc \in {"write_raw", "done", "aborted"}

\* the call that just ended with a record had its GET sent again after
\* transient answers
RetriedSuccess ==
    /\ epc = "loop"
    /\ http = "idle"
    /\ outcomes # <<>>
    /\ outcomes[Len(outcomes)] = "ok"
    /\ sent > 1

\* what the batch makes of its calls does not depend on their retries: the
\* curated list is the records of the calls that ended well, and a call that
\* was retried and ended well has its record last in the list
RetriesInvisible ==
    /\ curated = Fetched(1)
    /\ RetriedSuccess =>
           /\ curated # <<>>
           /\ curated[Len(curated)].id = EntityAt(attempts[Len(attempts)])
           /\ Len(outcomes) \notin Skipped

\* C14 (no retry by the orchestrator): in a batch fetch_pokemon_detail is
\* called once for each item of the index page, in the order of the page,
\* and never again for an item that was skipped; a call whose GET was
\* retried and then succeeded gives a record like any other success.
C14_NoOrchestratorRetry ==
    /\ CalledInOrder
    /\ BatchOver => Len(attempts) = Len(index)
    /\ RetriesInvisible

\* the curated fields of a payload, read off the payload
Projects(rec, raw) ==
    /\ rec.id = raw.id
    /\ rec.name = raw.name
    /\ rec.height = raw.height
    /\ rec.weight = raw.weight
    /\ rec.base_experience = raw.base_experience
    /\ Len(rec.types) = Len(raw.types)
    /\ \A k \in 1..Len(raw.types) : rec.types[k] = raw.types[k].type.name
    /\ Len(rec.abilities) = Len(raw.abilities)
    /\ \A k \in 1..Len(raw.abilities) :
           rec.abilities[k] = raw.abilities[k].ability.name
    /\ rec.sprites_front_default = raw.sprites.front_default

LockStep(c, r) ==
    /\ Len(c) = Len(r)
    /\ \A k \in 1..Len(c) : Projects(c[k], r[k])

\* the two files, once both are written, hold lists in lock-step
FilesInLockStep ==
    IF curatedFile = Absent \/ rawFile = Absent
    THEN curatedFile = rawFile
    ELSE LockStep(curatedFile[2], rawFile[2])

\* C15 (lock-step aggregates): between the iterations of the loop, and
\* after it, the curated and raw lists have the same length and each record
\* of the first is the projection of the payload at the same place of the
\* second, whichever items were skipped; the same holds of the two files
\* whenever a batch is not between its two writes.
C15_LockStep ==
    /\ LockStep(curated, raw_dump)
    /\ Len(curated) = Cardinality(Succeeded)
    /\ epc # "write_raw" => FilesInLockStep

\* a batch that wrote its files after it skipped its first item and fetched
\* its second
C15_Witness ==
    /\ epc = "done"
    /\ outcomes = <<"http", "ok">>
    /\ Len(curated) = 1
    /\ curated[1].id = EntityAt(2)
    /\ rawFile = Written(raw_dump)

\* every item of the index page has been handed to fetch_pokemon_detail
\* and the call is over
EveryItemAttempted ==
    /\ attempts = [k \in 1..Len(index) |-> k]
    /\ Len(outcomes) = Len(index)

\* C16 (artifacts written after the whole batch): a file differs from what
\* it was when the batch began only once every item has been attempted; a
\* batch that aborted, at the index fetch or in the loop, left both files as
\* they were; a batch that returned left in each file exactly its own list.
C16_WritesAfterBatch ==
    /\ <<curatedFile, rawFile>> # filesBefore => EveryItemAttempted
    /\ epc \in {"idle", "loop", "aborted"} =>
           <<curatedFile, rawFile>> = filesBefore
    /\ epc = "write_raw" =>
           /\ curatedFile = Written(curated)
           /\ rawFile = filesBefore[2]
    /\ epc = "done" =>
           /\ curatedFile = Written(curated)
           /\ rawFile = Written(raw_dump)
           /\ curated = Fetched(1)

\* a batch that aborted in its second iteration, after a first success, over
\* the files of a batch that had written other lists
C16_Witness ==
    /\ epc = "aborted"
    /\ eexc = "KeyError"
    /\ Len(outcomes) = 2
    /\ Len(curated) = 1
    /\ curatedFile # Absent
    /\ curatedFile # Written(curated)
    /\ rawFile # Written(raw_dump)

\* C18 (batch id uniqueness): in the curated list of a batch, at any point
\* of the loop and when it is written, every record has an id and no two
\* records have the same id, whatever the index page.
C18_BatchIdsUnique ==
    /\ \A k \in 1..Len(curated) : curated[k].id \in Entities
    /\ \A j, k \in 1..Len(curated) :
           j # k => curated[j].id # curated[k].id

----------------------------------------------------------------------------
(* Properties of the transport (SpecExtract) *)

\* a status of the forcelist, or no response at all
Transient(a) ==
    IF IsResponse(a) THEN a[2] \in StatusForcelist ELSE TRUE

\* C11 (bounded transport retry): a GET of the session is sent at most 5
\* times in all; it is about to be sent again only after a response with
\* status 429, 500, 502, 503 or 504 or a failure of the connection; and
\* once it has been sent 5 times and met such an answer it is not sent again.
C11_BoundedRetry ==
    /\ sent <= RetryTotal
    /\ (http = "sending" /\ sent >= 1) => Transient(answer)
    /\ (sent = RetryTotal /\ Transient(answer)) => http # "sending"

====
